---- MODULE Spec2Model ----
(***************************************************************************)
(* A model of the canteen reservoir engine: outlets and their release      *)
(* range, the outlet formatter (renaming and ordering), the Passive and    *)
(* PassiveOutlets operating policies, the reservoir and its add_outlets,   *)
(* and the pools of a ReservoirWithPools with their stateful iterator and   *)
(* the zoned policy pool_based_operations that reads them.                 *)
(*                                                                         *)
(* Numbers.  Volumes and locations are integers counting quarter units     *)
(* (1 = 0.25, so capacity 1.0 is 4) in the reservoir and formatter parts,  *)
(* and twentieth units (1 = 0.05) in the pools part; every value drawn is  *)
(* exactly representable in binary floating point or small enough that    *)
(* the arithmetic done on it is exact.                                     *)
(***************************************************************************)
EXTENDS Integers, Sequences, FiniteSets, TLC

VARIABLES
    storage,      \* BasicReservoir.storage
    capacity,     \* BasicReservoir.capacity
    outlets,      \* the outlets attribute of the reservoir instance
    operations,   \* BasicReservoir.operations: the bound policy
    pools,        \* ReservoirWithPools.pools: [names, top_locations]
    pools_i,      \* Pools.__i: the position of the pools' own iterator
    cls_outlets,  \* the outlets attribute set on the class object Reservoir
    inp,          \* the caller's outlet list handed to the formatter
    PLUGINS,      \* canteen.PLUGINS: per tag, the registered name -> implementation
    asset,        \* the Asset object the caller holds (frozen dataclass)
    call,         \* the last call made: its name, arguments and prior state
    ret           \* what the last call returned (or the error it raised)

vars == <<storage, capacity, outlets, operations, pools, pools_i,
          cls_outlets, inp, PLUGINS, asset, call, ret>>

-----------------------------------------------------------------------------
(* Bounds of the model *)

MaxCapacity == 4
MaxInflow == 3
MaxVolume == 8
MaxOutlets == 2
MaxFormat == 3
MaxPools == 3
MaxValidate == 2
MaxItems == 2
MaxPeriods == 2
MaxAssetValue == 3
MaxLog == 4

(* math.inf, the default design_range.max: larger than every volume drawn *)
Inf == 1000000

-----------------------------------------------------------------------------
(* Helpers *)

Max(a, b) == IF a >= b THEN a ELSE b
Min(a, b) == IF a <= b THEN a ELSE b

RECURSIVE Sum(_)
Sum(s) == IF s = <<>> THEN 0 ELSE Head(s) + Sum(Tail(s))

NoCall == [op |-> "none"]
NoRet == [kind |-> "none"]
(* a raised exception *)
Raise(msg) == [kind |-> "error", error |-> msg]
NoPools == [names |-> <<>>, top_locations |-> <<>>]
(* the registry as the module creates it: one empty dict per tag *)
NoPlugins == [tag \in {"operations", "outlets", "reservoirs"} |-> <<>>]
(* no Asset has been constructed *)
NoAsset == [value |-> 0]
(* an attribute an object does not have: reading it is an AttributeError *)
NoAttr == [kind |-> "AttributeError"]
Attr(x) == [kind |-> "value", value |-> x]

(* A Python number: its type and its value in quarter units *)
PyInt(n) == [ty |-> "int", v |-> 4 * n]
PyFloat(q) == [ty |-> "float", v |-> q]

-----------------------------------------------------------------------------
(* BasicOutlet *)

ReleaseRange(lo, hi) == [min |-> lo, max |-> hi]

BasicOutlet_operations_nogate(outlet, fill_state) ==
    LET over_gate == fill_state - outlet.location.v
    IN  ReleaseRange(Min(outlet.design_range.min, over_gate),
                     Min(over_gate, outlet.design_range.max))

BasicOutlet_operations_unclamped(outlet, fill_state) ==
    LET over_gate == fill_state - outlet.location.v
    IN  IF over_gate <= 0
        THEN ReleaseRange(0, 0)
        ELSE outlet.design_range

BasicOutlet_operations(outlet, fill_state) ==
    LET over_gate == fill_state - outlet.location.v
    IN  IF over_gate <= 0
        THEN ReleaseRange(0, 0)
        ELSE ReleaseRange(Min(outlet.design_range.min, over_gate),
                          Min(over_gate, outlet.design_range.max))

-----------------------------------------------------------------------------
(* Operating policies *)

Passive_operate_keeps_spill(s, c, inflow) ==
    LET release == Max(0, s + inflow - c)
    IN  [release |-> release, storage |-> s + inflow]

Passive_operate_late_spill(s, c, inflow) ==
    LET release == Max(0, s + inflow - c - 1)
    IN  [release |-> release, storage |-> s + (inflow - release)]

Passive_operate(s, c, inflow) ==
    LET release == Max(0, s + inflow - c)
    IN  [release |-> release, storage |-> s + (inflow - release)]

(* self.operations(self, inflow) with operations = None: the call of None
   raises TypeError before any statement of a policy runs *)
call_None_returns(s, inflow) ==
    [ret |-> [kind |-> "release", release |-> inflow], storage |-> s]

call_None(s, inflow) ==
    [ret |-> Raise("TypeError"), storage |-> s]

RECURSIVE ReleaseLoop_same_volume(_, _, _)
ReleaseLoop_same_volume(outs, volume, output) ==
    IF outs = <<>>
    THEN [volume |-> volume, output |-> output]
    ELSE LET fill == volume + Sum(output)
             release == BasicOutlet_operations(Head(outs), fill).max
         IN  ReleaseLoop_same_volume(Tail(outs), volume - release,
                                     Append(output, release))

RECURSIVE ReleaseLoop(_, _, _)
ReleaseLoop(outs, volume, output) ==
    IF outs = <<>>
    THEN [volume |-> volume, output |-> output]
    ELSE LET release == BasicOutlet_operations(Head(outs), volume).max
         IN  ReleaseLoop(Tail(outs), volume - release, Append(output, release))

PassiveOutlets_operate_spilled(s, c, outs, inflow) ==
    LET loop == ReleaseLoop(outs, s + inflow, <<>>)
        spill == Max(0, loop.volume - c)
    IN  [output |-> Append(loop.output, spill), storage |-> loop.volume - spill]

PassiveOutlets_operate(s, c, outs, inflow) ==
    LET loop == ReleaseLoop(outs, s + inflow, <<>>)
        spill == Max(0, loop.volume - c)
    IN  [output |-> Append(loop.output, spill), storage |-> loop.volume]

(* output_labels: names are sequences of characters, 'Spill' included *)
SpillLabel == <<"S", "p", "i", "l", "l">>

Passive_output_labels == <<SpillLabel>>

PassiveOutlets_output_labels_no_spill(outs) ==
    [k \in 1..Len(outs) |-> outs[k].name]

PassiveOutlets_output_labels(outs) ==
    [k \in 1..Len(outs) |-> outs[k].name] \o <<SpillLabel>>

-----------------------------------------------------------------------------
(* The reservoir under a bound policy *)

LocSet == {PyInt(0), PyInt(1), PyFloat(2)}
RangeSet == {ReleaseRange(0, Inf), ReleaseRange(0, 1), ReleaseRange(1, 2)}

(* The decimal digit d as a character *)
Digit(d) == <<"0", "1", "2", "3", "4", "5", "6", "7", "8", "9">>[d + 1]

(* Names are sequences of characters; the k-th outlet is named o<k> *)
PosName(k) == <<"o", Digit(k)>>

OutletLists ==
    UNION { { [k \in 1..n |-> [name |-> PosName(k), location |-> locs[k],
                               design_range |-> rngs[k]]] :
                locs \in [1..n -> LocSet], rngs \in [1..n -> RangeSet] } :
            n \in 0..MaxOutlets }

Init ==
    /\ capacity \in 1..MaxCapacity
    /\ storage \in 0..capacity
    /\ operations \in {"None", "Passive", "PassiveOutlets"}
    /\ outlets \in IF operations = "PassiveOutlets" THEN OutletLists ELSE {<<>>}
    /\ pools = NoPools
    /\ pools_i = -1
    /\ cls_outlets = NoAttr
    /\ PLUGINS = NoPlugins
    /\ asset = NoAsset
    /\ inp = <<>>
    /\ call = NoCall
    /\ ret = NoRet

(* BasicReservoir.operate delegating to Passive.operate *)
PassiveOperate(inflow) ==
    /\ operations = "Passive"
    /\ LET r == Passive_operate(storage, capacity, inflow)
       IN  /\ storage' = r.storage
           /\ ret' = [kind |-> "release", release |-> r.release]
    /\ call' = [op |-> "Passive", inflow |-> inflow, storage |-> storage]
    /\ UNCHANGED <<capacity, PLUGINS, asset, outlets, operations, pools, pools_i, cls_outlets, inp>>

(* BasicReservoir.operate on a reservoir constructed with operations=None *)
UnboundOperate(inflow) ==
    /\ operations = "None"
    /\ LET r == call_None(storage, inflow)
       IN  /\ storage' = r.storage
           /\ ret' = r.ret
    /\ call' = [op |-> "None", inflow |-> inflow, storage |-> storage]
    /\ UNCHANGED <<capacity, PLUGINS, asset, outlets, operations, pools, pools_i, cls_outlets, inp>>

(* BasicReservoir.operate delegating to PassiveOutlets.operate *)
PassiveOutletsOperate(inflow) ==
    /\ operations = "PassiveOutlets"
    /\ storage + inflow <= MaxVolume
    /\ LET r == PassiveOutlets_operate(storage, capacity, outlets, inflow)
       IN  /\ storage' = r.storage
           /\ ret' = [kind |-> "releases", output |-> r.output]
    /\ call' = [op |-> "PassiveOutlets", inflow |-> inflow, storage |-> storage]
    /\ UNCHANGED <<capacity, PLUGINS, asset, outlets, operations, pools, pools_i, cls_outlets, inp>>

(* A caller asking the bound policy for the labels of the output that the
   operate call just made returned *)
OutputLabels ==
    /\ call.op \in {"Passive", "PassiveOutlets"}
    /\ ret' = [kind |-> "labels",
               labels |-> IF operations = "Passive"
                          THEN Passive_output_labels
                          ELSE PassiveOutlets_output_labels(outlets)]
    /\ call' = [op |-> "output_labels",
                output |-> IF operations = "Passive"
                           THEN <<ret.release>> ELSE ret.output,
                volume |-> call.storage + call.inflow]
    /\ UNCHANGED <<storage, capacity, PLUGINS, asset, outlets, operations, pools, pools_i,
                   cls_outlets, inp>>

(* A caller asking one outlet of the reservoir for its release range *)
OutletOperations(k, fill_state) ==
    /\ k \in 1..Len(outlets)
    /\ ret' = [kind |-> "range", range |-> BasicOutlet_operations(outlets[k], fill_state)]
    /\ call' = [op |-> "operations", k |-> k, fill_state |-> fill_state,
                outlets |-> outlets]
    /\ UNCHANGED <<storage, capacity, PLUGINS, asset, outlets, operations, pools, pools_i,
                   cls_outlets, inp>>

Next ==
    \/ \E inflow \in 0..MaxInflow : PassiveOperate(inflow)
    \/ \E inflow \in 0..MaxInflow : PassiveOutletsOperate(inflow)
    \/ \E inflow \in 0..MaxInflow : UnboundOperate(inflow)
    \/ OutputLabels

Spec == Init /\ [][Next]_vars

(* Outlets on their own: any list of outlets, asked at any fill state.
   BasicOutlet is a dataclass with no __post_init__: whatever design_range
   the caller gives is stored *)
DesignRangeSet == RangeSet \cup {ReleaseRange(2, 1)}

ConstructedOutletLists ==
    UNION { { [k \in 1..n |-> [name |-> PosName(k), location |-> locs[k],
                               design_range |-> rngs[k]]] :
                locs \in [1..n -> LocSet], rngs \in [1..n -> DesignRangeSet] } :
            n \in 0..MaxOutlets }

InitOutlet ==
    /\ capacity = 4
    /\ storage = 0
    /\ operations = "PassiveOutlets"
    /\ outlets \in ConstructedOutletLists
    /\ pools = NoPools
    /\ pools_i = -1
    /\ cls_outlets = NoAttr
    /\ PLUGINS = NoPlugins
    /\ asset = NoAsset
    /\ inp = <<>>
    /\ call = NoCall
    /\ ret = NoRet

NextOutlet ==
    \E k \in 1..MaxOutlets, fill_state \in -1..MaxVolume :
        OutletOperations(k, fill_state)

SpecOutlet == InitOutlet /\ [][NextOutlet]_vars

-----------------------------------------------------------------------------
(* The outlet formatter: format_outlets and sort_outlets.                  *)
(* A name is the sequence of its characters.                               *)

RECURSIVE Digits(_)
Digits(n) == IF n < 10 THEN <<Digit(n)>>
             ELSE Append(Digits(n \div 10), Digit(n % 10))

(* str(x) of a float x = q quarters: 0.0, 0.25, 0.5, 0.75, 1.0, ... *)
FloatStr(q) ==
    Digits(q \div 4) \o <<".">> \o
    CASE q % 4 = 0 -> <<"0">>
      [] q % 4 = 1 -> <<"2", "5">>
      [] q % 4 = 2 -> <<"5">>
      [] q % 4 = 3 -> <<"7", "5">>

(* str(outlet.location) *)
str(loc) == IF loc.ty = "int" THEN Digits(loc.v \div 4) ELSE FloatStr(loc.v)

(* f'{round(x, 1)}' of a float x = q quarters: quarters are exact in binary,
   so the ties .25 and .75 round half to even, to .2 and .8 *)
Round1Str(q) ==
    Digits(q \div 4) \o <<".">> \o
    CASE q % 4 = 0 -> <<"0">>
      [] q % 4 = 1 -> <<"2">>
      [] q % 4 = 2 -> <<"5">>
      [] q % 4 = 3 -> <<"8">>

(* the text rename_duplicates writes after the '@' in the first pass *)
LocationText(loc) ==
    IF loc.ty = "int" THEN Digits(loc.v \div 4) ELSE Round1Str(loc.v)

(* the code point of a character, for Python's string comparison *)
Ord(c) ==
    CASE c = "." -> 46
      [] c = "0" -> 48 [] c = "1" -> 49 [] c = "2" -> 50 [] c = "3" -> 51
      [] c = "4" -> 52 [] c = "5" -> 53 [] c = "6" -> 54 [] c = "7" -> 55
      [] c = "8" -> 56 [] c = "9" -> 57
      [] c = "@" -> 64
      [] c = "a" -> 97 [] c = "b" -> 98 [] c = "e" -> 101 [] c = "l" -> 108
      [] c = "o" -> 111 [] c = "t" -> 116 [] c = "u" -> 117

RECURSIVE StrLt(_, _)
StrLt(x, y) ==
    IF y = <<>> THEN FALSE
    ELSE IF x = <<>> THEN TRUE
    ELSE IF Head(x) # Head(y) THEN Ord(Head(x)) < Ord(Head(y))
    ELSE StrLt(Tail(x), Tail(y))

(* name.split('@'): the number of parts, and the part after the first '@' *)
SplitLen(name) == Cardinality({i \in 1..Len(name) : name[i] = "@"}) + 1
IndexAt(name) == CHOOSE i \in 1..Len(name) :
                     /\ name[i] = "@"
                     /\ \A j \in 1..(i - 1) : name[j] # "@"
SecondPart(name) ==
    LET rest == SubSeq(name, IndexAt(name) + 1, Len(name))
    IN  IF \E i \in 1..Len(rest) : rest[i] = "@"
        THEN SubSeq(rest, 1, IndexAt(rest) - 1)
        ELSE rest

OutletName == <<"o", "u", "t", "l", "e", "t">>

NameInvalid_parts_only(o) ==
    /\ o.name # <<>>
    /\ SplitLen(o.name) > 2

(* preprocss: the deep copy with empty names set to 'outlet', or the
   ValueError of the first invalid name *)
NameInvalid(o) ==
    /\ o.name # <<>>
    /\ \/ SplitLen(o.name) > 2
       \/ SplitLen(o.name) = 2 /\ SecondPart(o.name) # str(o.location)

preprocss(outs) ==
    IF \E k \in 1..Len(outs) : NameInvalid(outs[k])
    THEN Raise("Invalid name")
    ELSE [kind |-> "ok",
          outlets |-> [k \in 1..Len(outs) |->
                          IF outs[k].name = <<>>
                          THEN [outs[k] EXCEPT !.name = OutletName]
                          ELSE outs[k]]]

(* Counter(seq): its keys in order of first occurrence, and its counts *)
RECURSIVE Keys(_)
Keys(seq) ==
    IF seq = <<>> THEN <<>>
    ELSE LET rest == Keys(SubSeq(seq, 1, Len(seq) - 1))
             last == seq[Len(seq)]
         IN  IF \E i \in 1..Len(rest) : rest[i] = last
             THEN rest ELSE Append(rest, last)

Count(x, seq) == Cardinality({i \in 1..Len(seq) : seq[i] = x})

(* find_duplicates over the outlets at positions scan, whose current names
   are names: the positions named name, or the ValueError (with the names
   the outlets carry when it is raised) *)
find_duplicates(name, count, names, scan) ==
    LET duplicates == SelectSeq(scan, LAMBDA p : names[p] = name)
    IN  IF Len(duplicates) # count
        THEN [kind |-> "error", error |-> "Found", names |-> names]
        ELSE [kind |-> "ok", duplicates |-> duplicates]

rename_duplicates_from_zero(duplicates, names, locs, is_first_pass) ==
    [p \in 1..Len(names) |->
        IF \E i \in 1..Len(duplicates) : duplicates[i] = p
        THEN LET i == CHOOSE i \in 1..Len(duplicates) : duplicates[i] = p
             IN  IF is_first_pass
                 THEN names[p] \o <<"@">> \o LocationText(locs[p])
                 ELSE LET at == IndexAt(names[p])
                      IN  SubSeq(names[p], 1, at - 1) \o Digits(i - 1)
                              \o SubSeq(names[p], at, Len(names[p]))
        ELSE names[p]]

(* rename_duplicates: the names after renaming the outlets at positions
   duplicates in place *)
rename_duplicates(duplicates, names, locs, is_first_pass) ==
    [p \in 1..Len(names) |->
        IF \E i \in 1..Len(duplicates) : duplicates[i] = p
        THEN LET i == CHOOSE i \in 1..Len(duplicates) : duplicates[i] = p
             IN  IF is_first_pass
                 THEN names[p] \o <<"@">> \o LocationText(locs[p])
                 ELSE LET at == IndexAt(names[p])
                          pre_name == SubSeq(names[p], 1, at - 1)
                          location == SubSeq(names[p], at, Len(names[p]))
                      IN  pre_name \o Digits(i) \o location
        ELSE names[p]]

(* the second pass over one group of duplicates: recounted is the group's
   names right after the first pass *)
RECURSIVE SecondPass(_, _, _, _, _)
SecondPass(keys, recounted, names, duplicates, locs) ==
    IF keys = <<>> THEN [kind |-> "ok", names |-> names]
    ELSE LET k == Head(keys)
             n == Count(k, recounted)
         IN  IF n > 1
             THEN LET found == find_duplicates(k, n, names, duplicates)
                  IN  IF found.kind = "error" THEN found
                      ELSE SecondPass(Tail(keys), recounted,
                               rename_duplicates(found.duplicates, names, locs, FALSE),
                               duplicates, locs)
             ELSE SecondPass(Tail(keys), recounted, names, duplicates, locs)

(* the first pass: the loop over name_counter.items() *)
RECURSIVE FirstPass(_, _, _, _)
FirstPass(keys, counted, names, locs) ==
    IF keys = <<>> THEN [kind |-> "ok", names |-> names]
    ELSE LET k == Head(keys)
             n == Count(k, counted)
         IN  IF n > 1
             THEN LET found == find_duplicates(k, n, names,
                                   [p \in 1..Len(names) |-> p])
                  IN  IF found.kind = "error" THEN found
                      ELSE LET renamed == rename_duplicates(found.duplicates,
                                              names, locs, TRUE)
                               recounted == [i \in 1..Len(found.duplicates) |->
                                                renamed[found.duplicates[i]]]
                               second == SecondPass(Keys(recounted), recounted,
                                             renamed, found.duplicates, locs)
                           IN  IF second.kind = "error" THEN second
                               ELSE FirstPass(Tail(keys), counted,
                                              second.names, locs)
             ELSE FirstPass(Tail(keys), counted, names, locs)

(* sort_outlets: sorted() is stable and asks only key(a) < key(b).  The key
   is the tuple (Reverse(location), name): tuples compare by their first
   pair of unequal members, Reverse defines no __eq__, and every key holds a
   Reverse object of its own, so the first members are never equal and the
   names are never compared. *)
Reverse_eq(a, b) == FALSE
Reverse_lt(a, b) == a > b

key_lt(o1, o2) ==
    IF ~Reverse_eq(o1.location.v, o2.location.v)
    THEN Reverse_lt(o1.location.v, o2.location.v)
    ELSE StrLt(o1.name, o2.name)

RECURSIVE insert_stable(_, _)
insert_stable(sorted, x) ==
    IF sorted = <<>> THEN <<x>>
    ELSE LET last == sorted[Len(sorted)]
         IN  IF key_lt(x, last)
             THEN Append(insert_stable(SubSeq(sorted, 1, Len(sorted) - 1), x), last)
             ELSE Append(sorted, x)

RECURSIVE sort_outlets(_)
sort_outlets(outs) ==
    IF outs = <<>> THEN <<>>
    ELSE insert_stable(sort_outlets(SubSeq(outs, 1, Len(outs) - 1)),
                       outs[Len(outs)])

Names(outs) == [k \in 1..Len(outs) |-> outs[k].name]
Locations(outs) == [k \in 1..Len(outs) |-> outs[k].location]

(* the renaming of format_outlets: preprocss and the two passes *)
rename_all(outs) ==
    LET pre == preprocss(outs)
    IN  IF pre.kind = "error" THEN pre
        ELSE LET passes == FirstPass(Keys(Names(pre.outlets)), Names(pre.outlets),
                               Names(pre.outlets), Locations(pre.outlets))
             IN  IF passes.kind = "error" THEN passes
                 ELSE [kind |-> "ok",
                       outlets |-> [k \in 1..Len(outs) |->
                           [pre.outlets[k] EXCEPT !.name = passes.names[k]]]]

format_outlets_unchecked(outs) ==
    LET renamed == rename_all(outs)
    IN  IF renamed.kind = "error" THEN Raise(renamed.error)
        ELSE [kind |-> "ok", outlets |-> sort_outlets(renamed.outlets)]

format_outlets(outs) ==
    LET renamed == rename_all(outs)
    IN  IF renamed.kind = "error" THEN Raise(renamed.error)
        ELSE IF Cardinality({renamed.outlets[k].name : k \in 1..Len(outs)}) # Len(outs)
        THEN Raise("Failed to create unique names")
        ELSE [kind |-> "ok", outlets |-> sort_outlets(renamed.outlets)]

(* Outlets as objects.  A heap is the sequence of the outlet objects that
   exist, an object's identity is its index, and a list of outlets is a
   sequence of identities.  copy.deepcopy(outlets) makes one new object per
   outlet of the list (the caller's list holds distinct objects). *)
deepcopy_alias(heap, refs) == [heap |-> heap, refs |-> refs]

deepcopy(heap, refs) ==
    [heap |-> heap \o [k \in 1..Len(refs) |-> heap[refs[k]]],
     refs |-> [k \in 1..Len(refs) |-> Len(heap) + k]]

(* the names the outlets of the working list carry when format_outlets
   returns or raises: preprocss stops at the first invalid name, the passes
   assign outlet.name in place *)
names_at_exit(outs) ==
    LET pre == preprocss(outs)
    IN  IF pre.kind = "error"
        THEN LET bad == CHOOSE k \in 1..Len(outs) :
                            /\ NameInvalid(outs[k])
                            /\ \A j \in 1..(k - 1) : ~NameInvalid(outs[j])
             IN  [k \in 1..Len(outs) |->
                     IF k < bad /\ outs[k].name = <<>>
                     THEN OutletName ELSE outs[k].name]
        ELSE FirstPass(Keys(Names(pre.outlets)), Names(pre.outlets),
                       Names(pre.outlets), Locations(pre.outlets)).names

(* format_outlets(outlets) called with the list refs of objects of heap: the
   heap after the call, what the call returned or raised, and the identities
   of the outlets of the returned tuple *)
format_outlets_call(heap, refs) ==
    LET copied == deepcopy(heap, refs)
        working == [k \in 1..Len(refs) |-> copied.heap[copied.refs[k]]]
        names == names_at_exit(working)
        result == format_outlets(working)
        written == [id \in 1..Len(copied.heap) |->
                       IF \E k \in 1..Len(refs) : copied.refs[k] = id
                       THEN LET k == CHOOSE k \in 1..Len(refs) : copied.refs[k] = id
                            IN  [copied.heap[id] EXCEPT !.name = names[k]]
                       ELSE copied.heap[id]]
        tagged == [k \in 1..Len(refs) |->
                      [name |-> names[k], location |-> working[k].location,
                       design_range |-> working[k].design_range,
                       id |-> copied.refs[k]]]
        sorted_outlets == sort_outlets(tagged)
    IN  [heap |-> written,
         ret |-> IF result.kind = "ok"
                 THEN [kind |-> "ok", outlets |-> result.outlets,
                       ids |-> [k \in 1..Len(refs) |-> sorted_outlets[k].id]]
                 ELSE result]

(* The formatter on its own: any caller's list, formatted, formatted again,
   and sorted from any order *)
NameSet == { <<>>, <<"a", "@", "1">>, OutletName \o <<"1", "@", "1">> }
FormatLocSet == {PyInt(1), PyFloat(1), PyFloat(4)}

FormatInputs ==
    UNION { [1..n -> [name : NameSet, location : FormatLocSet,
                      design_range : {ReleaseRange(0, Inf)}]] :
            n \in 0..MaxFormat }

InitFormat ==
    /\ capacity = 4
    /\ storage = 0
    /\ operations = "Passive"
    /\ outlets = <<>>
    /\ pools = NoPools
    /\ pools_i = -1
    /\ cls_outlets = NoAttr
    /\ PLUGINS = NoPlugins
    /\ asset = NoAsset
    /\ inp \in FormatInputs
    /\ call = NoCall
    /\ ret = NoRet

(* format_outlets(inp): the caller's list holds the objects 1..Len(inp) *)
Format ==
    LET r == format_outlets_call(inp, [k \in 1..Len(inp) |-> k])
    IN  /\ ret' = r.ret
        /\ inp' = SubSeq(r.heap, 1, Len(inp))
        /\ call' = [op |-> "format_outlets", arg |-> inp]
        /\ UNCHANGED <<storage, capacity, PLUGINS, asset, outlets, operations, pools, pools_i,
                       cls_outlets>>

FormatAgain ==
    /\ call.op = "format_outlets"
    /\ ret.kind = "ok"
    /\ ret' = format_outlets(ret.outlets)
    /\ call' = [op |-> "format_again", arg |-> ret.outlets]
    /\ UNCHANGED <<storage, capacity, PLUGINS, asset, outlets, operations, pools, pools_i,
                   cls_outlets, inp>>

Orders(n) == {f \in [1..n -> 1..n] : \A i, j \in 1..n : f[i] = f[j] => i = j}

SortFormatted ==
    /\ call.op = "format_outlets"
    /\ ret.kind = "ok"
    /\ \E f \in Orders(Len(ret.outlets)) :
          LET arg == [k \in 1..Len(ret.outlets) |-> ret.outlets[f[k]]]
          IN  /\ ret' = [kind |-> "ok", outlets |-> sort_outlets(arg)]
              /\ call' = [op |-> "sort_outlets", arg |-> arg]
    /\ UNCHANGED <<storage, capacity, PLUGINS, asset, outlets, operations, pools, pools_i,
                   cls_outlets, inp>>

NextFormat == Format \/ FormatAgain \/ SortFormatted

SpecFormat == InitFormat /\ [][NextFormat]_vars

(* The name validation of format_outlets on its own: short lists over names
   with no '@', one '@' (with and without the location's text) and two *)
ValidateNameSet ==
    { <<>>, <<"b">>, <<"a", "@", "1">>, <<"a", "@", "2">>,
      <<"a", "@", "1", ".", "0">>, <<"a", "@", "0", ".", "2", "5">>,
      <<"a", "@", "1", "@", "1">> }

ValidateInputs ==
    UNION { [1..n -> [name : ValidateNameSet, location : FormatLocSet,
                      design_range : {ReleaseRange(0, Inf)}]] :
            n \in 0..MaxValidate }

InitValidate ==
    /\ capacity = 4
    /\ storage = 0
    /\ operations = "Passive"
    /\ outlets = <<>>
    /\ pools = NoPools
    /\ pools_i = -1
    /\ cls_outlets = NoAttr
    /\ PLUGINS = NoPlugins
    /\ asset = NoAsset
    /\ inp \in ValidateInputs
    /\ call = NoCall
    /\ ret = NoRet

NextValidate == Format

SpecValidate == InitValidate /\ [][NextValidate]_vars

-----------------------------------------------------------------------------
(* BasicReservoir.add_outlets.  Two objects matter: the reservoir instance *)
(* ("self": name, storage, capacity, operations) and the class object      *)
(* Reservoir, the Protocol, which declares these fields without values.    *)

(* getattr(ref, attr) *)
GetAttr(ref, attr) ==
    IF ref = "self"
    THEN CASE attr = "name" -> Attr(<<>>)
           [] attr = "storage" -> Attr(storage)
           [] attr = "capacity" -> Attr(capacity)
           [] attr = "operations" -> Attr(operations)
           [] attr = "outlets" -> NoAttr
    ELSE IF attr = "outlets" THEN cls_outlets ELSE NoAttr

(* copy.deepcopy(Reservoir): deepcopy returns a class object as it is *)
deepcopy_Reservoir == "Reservoir"

(* add_outlets(outlets) with the default sorter *)
AddOutlets(outs) ==
    LET reservoir == deepcopy_Reservoir
        formatted == format_outlets(outs)
    IN  /\ call' = [op |-> "add_outlets", arg |-> outs, storage |-> storage,
                    capacity |-> capacity, operations |-> operations]
        /\ IF formatted.kind = "error"
           THEN /\ ret' = formatted
                /\ UNCHANGED cls_outlets
           ELSE /\ cls_outlets' = Attr(sort_outlets(formatted.outlets))
                /\ ret' = [kind |-> "object", ref |-> reservoir]
        /\ UNCHANGED <<storage, capacity, PLUGINS, asset, outlets, operations, pools, pools_i, inp>>

(* operate(inflow=...) called on what add_outlets returned: the function
   Reservoir.operate called through the class, with no self *)
OperateReturned(inflow) ==
    /\ ret.kind = "object"
    /\ ret.ref = "Reservoir"
    /\ ret' = Raise("TypeError")
    /\ call' = [op |-> "operate_returned", inflow |-> inflow, storage |-> storage]
    /\ UNCHANGED <<storage, capacity, PLUGINS, asset, outlets, operations, pools, pools_i,
                   cls_outlets, inp>>

AddOutletSet ==
    { [name |-> <<>>, location |-> PyInt(1), design_range |-> ReleaseRange(0, Inf)],
      [name |-> <<"a", "@", "1">>, location |-> PyInt(0),
       design_range |-> ReleaseRange(0, Inf)] }

AddInputs == UNION { [1..n -> AddOutletSet] : n \in 0..MaxOutlets }

InitAdd ==
    /\ capacity \in 1..MaxCapacity
    /\ storage \in 0..capacity
    /\ operations = "Passive"
    /\ outlets = <<>>
    /\ pools = NoPools
    /\ pools_i = -1
    /\ cls_outlets = NoAttr
    /\ PLUGINS = NoPlugins
    /\ asset = NoAsset
    /\ inp = <<>>
    /\ call = NoCall
    /\ ret = NoRet

NextAdd ==
    \/ \E inflow \in 0..MaxInflow : PassiveOperate(inflow)
    \/ \E outs \in AddInputs : AddOutlets(outs)
    \/ \E inflow \in 0..MaxInflow : OperateReturned(inflow)

SpecAdd == InitAdd /\ [][NextAdd]_vars

-----------------------------------------------------------------------------
(* Pools and ReservoirWithPools.  Pools is its own iterator: __iter__      *)
(* returns self and __next__ advances the one position __i, which only a   *)
(* completed iteration sets back to -1.                                    *)

(* Pools.__next__ from position i: the position after it, and the item
   yielded or the end of the iteration *)
Pools_next(p, i) ==
    IF i + 1 < Len(p.names)
    THEN [i |-> i + 1, stop |-> FALSE,
          name |-> p.names[i + 2], top |-> p.top_locations[i + 2]]
    ELSE [i |-> -1, stop |-> TRUE]

(* Pools.__post_init__: whether it raises; the one thing it checks is that
   there are as many names as top locations *)
Pools_post_init_raises(p) == Len(p.names) # Len(p.top_locations)

(* ReservoirWithPools.__post_init__ on fresh pools: whether it raises *)
post_init_raises(p, cap) ==
    \E i \in 0..(Len(p.names) - 1) :
        cap < p.top_locations[i + 1] /\ i < Len(p.names) - 1

(* ReservoirWithPools.__post_init__ on pools whose iterator is at i: the
   position it leaves and whether it raises; e is the index enumerate gives *)
RECURSIVE post_init_loop(_, _, _, _)
post_init_loop(p, i, e, cap) ==
    LET nxt == Pools_next(p, i)
    IN  IF nxt.stop
        THEN [i |-> nxt.i, raises |-> FALSE]
        ELSE IF cap < nxt.top /\ e < Len(p.names) - 1
        THEN [i |-> nxt.i, raises |-> TRUE]
        ELSE post_init_loop(p, nxt.i, e + 1, cap)

post_init(p, i, cap) == post_init_loop(p, i, 0, cap)

(* the loop of active_pool: i is Pools.__i, e the index enumerate gives *)
RECURSIVE active_pool_loop(_, _, _, _)
active_pool_loop(p, i, e, volume) ==
    LET nxt == Pools_next(p, i)
    IN  IF nxt.stop
        THEN [i |-> nxt.i, ret |-> [kind |-> "empty string"]]
        ELSE IF volume <= nxt.top
        THEN [i |-> nxt.i,
              ret |-> [kind |-> "pool", name |-> nxt.name,
                       volume |-> IF e = 0 THEN volume
                                  ELSE volume - p.top_locations[e]]]
        ELSE active_pool_loop(p, nxt.i, e + 1, volume)

active_pool(p, i, volume) == active_pool_loop(p, i, 0, volume)

(* releases[k] = x on a Python list of length n: an IndexError unless k < n *)
SetItem(list, k, x) ==
    IF list.kind = "error" THEN list
    ELSE IF k < Len(list.items)
    THEN [kind |-> "ok", items |-> [list.items EXCEPT ![k + 1] = x]]
    ELSE Raise("IndexError")

(* max_flood_release = 0.1, in twentieths *)
max_flood_release == 2

(* pool_based_operations(reservoir, inflow, demand) with Pools.__i = i when
   it is called: the position it leaves and what it returns or raises.  It
   reads reservoir.storage and assigns nothing of the reservoir; the pools'
   iterator is advanced by the comprehension over reservoir.pools (from i to
   the end, which sets it back to -1) and then by active_pool. *)
pool_based_operations(p, i, s, inflow, demand) ==
    IF Len(p.top_locations) < 3
    THEN [i |-> i, ret |-> Raise("IndexError")]
    ELSE
    LET count == Len(p.names)
        flood_pool_volume == p.top_locations[3] - p.top_locations[2]
        volume == s + inflow
        releases == [kind |-> "ok", items |-> [k \in 1..(count - 1 - i) |-> 0]]
        active == active_pool(p, -1, volume)
        pool_vol == active.ret.volume
        assigned ==
            CASE active.ret.name = "conservation" ->
                     SetItem(releases, 1, Min(demand, pool_vol))
              [] active.ret.name = "flood" ->
                     SetItem(releases, 2, Min(pool_vol, max_flood_release))
              [] active.ret.name = "surcharge" ->
                     SetItem(SetItem(releases, 2,
                                     Min(flood_pool_volume, max_flood_release)),
                             3, pool_vol)
              [] active.ret.name = "spill" ->
                     LET first == SetItem(releases, 2,
                                      Min(flood_pool_volume, max_flood_release))
                     IN  IF first.kind = "error" THEN first
                         ELSE IF Len(p.top_locations) < 4 THEN Raise("IndexError")
                         ELSE SetItem(SetItem(first, 3, p.top_locations[4]
                                                        - p.top_locations[3]),
                                      4, pool_vol)
              [] OTHER -> Raise("ValueError")
    IN  IF active.ret.kind = "empty string"
        THEN [i |-> active.i, ret |-> Raise("ValueError")]
        ELSE IF active.ret.name = "dead"
        THEN [i |-> active.i,
              ret |-> [kind |-> "releases", type |-> "tuple",
                       output |-> releases.items]]
        ELSE IF assigned.kind = "error"
        THEN [i |-> active.i, ret |-> assigned]
        ELSE [i |-> active.i,
              ret |-> [kind |-> "releases", type |-> "list",
                       output |-> assigned.items]]

DefaultNames == <<"dead", "conservation", "flood", "surcharge", "spill">>
(* pools named by the caller, with a name the zoned policy does not know *)
CallerPools == [names |-> <<"inactive", "conservation", "flood">>,
                top_locations |-> <<4, 10, 15>>]
DemandSet == {0, 3}
DefaultTops == <<4, 10, 15, 18, 22>>
TopSet == {4, 10, 15, 22}
VolumeSet == {0, 4, 5, 10, 12, 15, 18, 19, 22, 40}

PoolsSet ==
    {[names |-> DefaultNames, top_locations |-> DefaultTops], CallerPools,
     [names |-> DefaultNames, top_locations |-> <<4, 10>>]} \cup
    UNION { { [names |-> SubSeq(DefaultNames, 1, n), top_locations |-> tops] :
                tops \in [1..n -> TopSet] } : n \in 1..MaxPools }

InitPools ==
    /\ capacity = 20
    /\ storage = 0
    /\ operations = "Passive"
    /\ outlets = <<>>
    /\ pools \in {p \in PoolsSet : /\ ~Pools_post_init_raises(p)
                                    /\ ~post_init_raises(p, capacity)}
    /\ pools_i = -1
    /\ cls_outlets = NoAttr
    /\ PLUGINS = NoPlugins
    /\ asset = NoAsset
    /\ inp = <<>>
    /\ call = NoCall
    /\ ret = NoRet

ActivePool(volume) ==
    /\ LET r == active_pool(pools, pools_i, volume)
       IN  /\ pools_i' = r.i
           /\ ret' = r.ret
    /\ call' = [op |-> "active_pool", volume |-> volume, pools_i |-> pools_i]
    /\ UNCHANGED <<storage, capacity, PLUGINS, asset, outlets, operations, pools, cls_outlets, inp>>

(* ReservoirWithPools(pools=pools, capacity=cap): one more reservoir
   constructed on the Pools object that the reservoir of the state holds *)
CapacitySet == {12, 20, 30}

ConstructWithPools(cap) ==
    /\ LET r == post_init(pools, pools_i, cap)
       IN  /\ pools_i' = r.i
           /\ ret' = IF r.raises THEN Raise("ValueError")
                     ELSE [kind |-> "object", ref |-> "ReservoirWithPools",
                           capacity |-> cap]
    /\ call' = [op |-> "ReservoirWithPools", capacity |-> cap, pools_i |-> pools_i]
    /\ UNCHANGED <<storage, capacity, PLUGINS, asset, outlets, operations, pools, cls_outlets, inp>>

(* BasicReservoir.operate(inflow, demand) delegating to the zoned policy *)
PoolOperate(inflow, demand) ==
    /\ LET r == pool_based_operations(pools, pools_i, storage, inflow, demand)
       IN  /\ pools_i' = r.i
           /\ ret' = r.ret
    /\ call' = [op |-> "pool_based_operations", inflow |-> inflow,
                demand |-> demand, storage |-> storage, outlets |-> outlets,
                pools |-> pools, pools_i |-> pools_i]
    /\ UNCHANGED <<storage, capacity, PLUGINS, asset, outlets, operations, pools, cls_outlets, inp>>

NextPools ==
    \/ \E volume \in VolumeSet : ActivePool(volume)
    \/ \E inflow \in VolumeSet, demand \in DemandSet : PoolOperate(inflow, demand)
    \/ \E cap \in CapacitySet : ConstructWithPools(cap)

SpecPools == InitPools /\ [][NextPools]_vars

-----------------------------------------------------------------------------
(* The plugin registry.  PLUGINS holds one dict per tag; a dict is kept as   *)
(* the sequence of its items in insertion order, with one item per key.      *)
(* An implementation is a Python object, a class or a function, known by     *)
(* its identity; type_ is what type(obj) gives for it.                       *)

Class(n) == [type_ |-> "type", id |-> n]
Function(n) == [type_ |-> "function", id |-> n]

(* isinstance(v, type(existing)): every class is an instance of type and no
   function is; every function is an instance of function and no class is *)
isinstance_type(v, existing) == v.type_ = existing.type_

(* k in dct *)
In(k, dct) == \E j \in 1..Len(dct) : dct[j].k = k
(* dct[k] *)
GetItem(dct, k) == dct[CHOOSE j \in 1..Len(dct) : dct[j].k = k].v
(* dct[k] = v: an existing key keeps its place, a new one goes last *)
SetKey(dct, k, v) ==
    IF In(k, dct)
    THEN [j \in 1..Len(dct) |-> IF dct[j].k = k THEN [k |-> k, v |-> v] ELSE dct[j]]
    ELSE Append(dct, [k |-> k, v |-> v])

(* the guard of the loop of load_plugins *)
load_plugins_guard(registry, k, v) ==
    In(k, registry) /\ ~isinstance_type(v, GetItem(registry, k))

(* the loop of load_plugins over found_plugins.items(), from item j on *)
RECURSIVE load_plugins_loop(_, _, _)
load_plugins_loop(registry, found_plugins, j) ==
    IF j > Len(found_plugins)
    THEN [PLUGINS |-> registry, ret |-> [kind |-> "ok"]]
    ELSE LET k == found_plugins[j].k
             v == found_plugins[j].v
         IN  IF load_plugins_guard(registry, k, v)
             THEN [PLUGINS |-> registry, ret |-> Raise("ValueError")]
             ELSE load_plugins_loop(SetKey(registry, k, v), found_plugins, j + 1)

load_plugins(registry, found_plugins) == load_plugins_loop(registry, found_plugins, 1)

Tags == {"operations", "outlets", "reservoirs"}
(* the tags whose modules are loaded *)
LoadTags == {"operations", "outlets"}
PluginNames == {"Basic", "passive"}
Implementations == {Class("BasicOutlet"), Class("BasicReservoir"), Function("passive")}

(* what a module's initialize() returns: a dict, so no key twice *)
Modules ==
    { m \in UNION { [1..n -> [k : PluginNames, v : Implementations]] : n \in 1..MaxItems } :
        \A a, b \in 1..Len(m) : m[a].k = m[b].k => a = b }

InitPlugins ==
    /\ capacity = 4
    /\ storage = 0
    /\ operations = "Passive"
    /\ outlets = <<>>
    /\ pools = NoPools
    /\ pools_i = -1
    /\ cls_outlets = NoAttr
    /\ PLUGINS = NoPlugins
    /\ asset = NoAsset
    /\ inp = <<>>
    /\ call = NoCall
    /\ ret = NoRet

(* load_plugins(module_name, tag) for a module whose initialize() gives m *)
LoadPlugins(tag, m) ==
    LET r == load_plugins(PLUGINS[tag], m)
    IN  /\ PLUGINS' = [PLUGINS EXCEPT ![tag] = r.PLUGINS]
        /\ call' = [op |-> "load_plugins", tag |-> tag, found_plugins |-> m,
                    registry |-> PLUGINS[tag]]
        /\ ret' = r.ret
        /\ UNCHANGED <<storage, capacity, asset, outlets, operations, pools, pools_i,
                       cls_outlets, inp>>

NextPlugins == \E tag \in LoadTags, m \in Modules : LoadPlugins(tag, m)

SpecPlugins == InitPlugins /\ [][NextPlugins]_vars

-----------------------------------------------------------------------------
(* The depreciable asset (asset.py).  Its numbers are exact rationals        *)
(* [num, den] in lowest terms with den > 0; the inputs drawn are values the  *)
(* floats of the program hold exactly.                                       *)

Abs(x) == IF x < 0 THEN -x ELSE x

RECURSIVE GCD(_, _)
GCD(a, b) == IF b = 0 THEN a ELSE GCD(b, a % b)

Rat(n, d) ==
    LET sn == IF d < 0 THEN -n ELSE n
        sd == Abs(d)
        g == GCD(Abs(sn), sd)
    IN  [num |-> sn \div g, den |-> sd \div g]

RInt(n) == Rat(n, 1)
RAdd(a, b) == Rat(a.num * b.den + b.num * a.den, a.den * b.den)
RSub(a, b) == Rat(a.num * b.den - b.num * a.den, a.den * b.den)
RMul(a, b) == Rat(a.num * b.num, a.den * b.den)
(* a / b for b # 0 *)
RDiv(a, b) == Rat(a.num * b.den, a.den * b.num)
RLt(a, b) == a.num * b.den < b.num * a.den
RLe(a, b) == a.num * b.den <= b.num * a.den
(* Python's min(a, b) and max(a, b): the first argument unless the second
   is strictly smaller (larger) *)
RMin(a, b) == IF RLt(b, a) THEN b ELSE a
RMax(a, b) == IF RLt(a, b) THEN b ELSE a

Value(x) == [kind |-> "value", value |-> x]

RECURSIVE PowNat(_, _)
PowNat(x, e) == IF e = 0 THEN RInt(1) ELSE RMul(x, PowNat(x, e - 1))

(* x ** e for a whole exponent e >= 0: the exponents of the linear
   schedule, k = 1 and 1 / k = 1, are whole *)
Pow(x, e) == PowNat(x, e.num)

(* DepreciationParameters.ft *)
ft(p, t) ==
    IF RLe(RInt(p.n), t)
    THEN RInt(0)
    ELSE Pow(RSub(RInt(1), RDiv(t, RInt(p.n))), RInt(p.k))

(* DepreciationParameters.inverse_ft *)
inverse_ft(p, y) ==
    IF ~(RLe(RInt(0), y) /\ RLe(y, RInt(1)))
    THEN Raise("ValueError")
    ELSE Value(RMul(RInt(p.n), Pow(RSub(RInt(1), y), RDiv(RInt(1), RInt(p.k)))))

(* DepreciationParameters.scheduler *)
scheduler(p, maintenance) ==
    IF RLt(p.maintenance_requirement, maintenance)
    THEN Raise("ValueError")
    ELSE IF p.maintenance_requirement = RInt(0)
    THEN Raise("ZeroDivisionError")
    ELSE LET deferred == RDiv(RSub(p.maintenance_requirement, maintenance),
                              p.maintenance_requirement)
         IN  Value(RAdd(RInt(1), RMul(deferred, RInt(p.acceleration))))

(* Asset.portion_remaining, for salvage_value # replacement_value *)
portion_remaining(a) ==
    LET value_range == RSub(a.replacement_value, a.salvage_value)
    IN  RDiv(RSub(a.value, a.salvage_value), value_range)

(* Asset.__post_init__: the check of the three values *)
Asset_post_init_raises(value, salvage_value, replacement_value) ==
    ~(RLe(salvage_value, value) /\ RLe(value, replacement_value))

(* Asset(...): the dataclass constructor with __post_init__, which binds the
   depreciation function and so appends the value to the log it was given *)
Asset(value, salvage_value, replacement_value, parameters, log) ==
    IF Asset_post_init_raises(value, salvage_value, replacement_value)
    THEN Raise("ValueError")
    ELSE [kind |-> "asset",
          asset |-> [value |-> value, salvage_value |-> salvage_value,
                     replacement_value |-> replacement_value,
                     parameters |-> parameters, log |-> Append(log, value)]]

(* the function bound by Asset.bind_depreciation_fn *)
depreciation_fn(self, maintenance) ==
    LET p == self.parameters
        value_range == RSub(self.replacement_value, self.salvage_value)
        maint == RMin(maintenance, p.maintenance_requirement)
        recap == RMax(RInt(0), RSub(maint, p.maintenance_requirement))
        inv == inverse_ft(p, portion_remaining(self))
        sched == scheduler(p, maint)
    IN  IF inv.kind = "error" THEN inv
        ELSE IF sched.kind = "error" THEN sched
        ELSE LET t == RMin(RInt(p.n), RAdd(inv.value, sched.value))
                 val == RMax(self.salvage_value,
                             RMin(RAdd(RAdd(self.salvage_value,
                                            RMul(value_range, ft(p, t))), recap),
                                  self.replacement_value))
             IN  Asset(val, self.salvage_value, self.replacement_value, p, self.log)

(* DepreciationParameters its constructor accepts, with k = 1 *)
ParameterSet ==
    [k : {1}, n : 1..MaxPeriods, maintenance_requirement : {RInt(0), RInt(1), RInt(2)},
     acceleration : {1, 2}]

MaintenanceSet == {RInt(0), Rat(1, 2), RInt(1), RInt(3)}

(* the assets Asset(...) constructs, with salvage_value < replacement_value *)
AssetSet ==
    { Asset(RInt(v), RInt(s), RInt(r), p, <<>>).asset :
        <<v, s, r, p>> \in { x \in (0..MaxAssetValue) \X {0, 1} \X (1..MaxAssetValue)
                                    \X ParameterSet :
                               x[2] <= x[1] /\ x[1] <= x[3] /\ x[2] < x[3] } }

InitAsset ==
    /\ capacity = 4
    /\ storage = 0
    /\ operations = "Passive"
    /\ outlets = <<>>
    /\ pools = NoPools
    /\ pools_i = -1
    /\ cls_outlets = NoAttr
    /\ PLUGINS = NoPlugins
    /\ asset \in AssetSet
    /\ inp = <<>>
    /\ call = NoCall
    /\ ret = NoRet

(* asset = asset.depreciate(maintenance); a call that raises leaves the
   caller with the asset it had *)
Depreciate(maintenance) ==
    /\ Len(asset.log) < MaxLog
    /\ LET r == depreciation_fn(asset, maintenance)
       IN  /\ ret' = r
           /\ asset' = IF r.kind = "asset" THEN r.asset ELSE asset
    /\ call' = [op |-> "depreciate", maintenance |-> maintenance, self |-> asset]
    /\ UNCHANGED <<storage, capacity, PLUGINS, outlets, operations, pools, pools_i,
                   cls_outlets, inp>>

NextAsset == \E maintenance \in MaintenanceSet : Depreciate(maintenance)

SpecAsset == InitAsset /\ [][NextAsset]_vars

-----------------------------------------------------------------------------
(* Claims *)

(* C1: under the Passive policy one operate(inflow) call returns a release
   and leaves a storage with storage' + release = storage + inflow: no
   volume is created or destroyed. *)
C1_PassiveConservation ==
    call.op = "Passive" =>
        storage + ret.release = call.storage + call.inflow

C1_Witness ==
    /\ call.op = "Passive"
    /\ ret.release > 0
    /\ call.inflow > ret.release

(* C2: a reservoir bound to the Passive policy that starts within
   [0, capacity] stays within [0, capacity] after every operate call, and
   the excess over capacity is what the call returns as spill. *)
C2_PassiveStorageBounded ==
    operations = "Passive" =>
        /\ 0 <= storage
        /\ storage <= capacity
        /\ call.op = "Passive" =>
               ret.release = Max(0, call.storage + call.inflow - capacity)

C2_Witness ==
    /\ call.op = "Passive"
    /\ call.storage > 0
    /\ call.storage < capacity
    /\ storage = capacity
    /\ ret.release > 1

(* C3: a reservoir with outlets bound to the PassiveOutlets policy that
   starts within [0, capacity] has 0 <= storage <= capacity after every
   operate call: volume above capacity is never left as stored volume. *)
C3_PassiveOutletsStorageBounded ==
    (operations = "PassiveOutlets" /\ Len(outlets) > 0) =>
        /\ 0 <= storage
        /\ storage <= capacity

(* C4: under the PassiveOutlets policy every operate(inflow) call that
   returns leaves storage_after = storage_before + inflow - the sum of the
   returned releases, the spill entry included. *)
C4_PassiveOutletsConservation ==
    call.op = "PassiveOutlets" =>
        storage = call.storage + call.inflow - Sum(ret.output)

(* C5: an outlet's release range is (0, 0) when fill_state <= location and
   otherwise (min(design_range.min, over), min(over, design_range.max)) with
   over = fill_state - location; asking for it changes no outlet. *)
C5_ReleaseRange ==
    call.op = "operations" =>
        LET o == call.outlets[call.k]
            over == call.fill_state - o.location.v
        IN  /\ call.fill_state <= o.location.v => ret.range = ReleaseRange(0, 0)
            /\ call.fill_state > o.location.v =>
                   /\ ret.range.min = Min(o.design_range.min, over)
                   /\ ret.range.max = Min(over, o.design_range.max)
            /\ outlets = call.outlets

C5_Witness ==
    /\ call.op = "operations"
    /\ ret.range.min > 0
    /\ ret.range.max < call.outlets[call.k].design_range.max
    /\ call.outlets[call.k].location.v > 0

(* C6: whenever format_outlets returns without error, the names of the
   returned outlets are pairwise distinct. *)
C6_FormatNamesDistinct ==
    (call.op \in {"format_outlets", "format_again"} /\ ret.kind = "ok") =>
        \A i, j \in 1..Len(ret.outlets) :
            ret.outlets[i].name = ret.outlets[j].name => i = j

C6_Witness ==
    /\ call.op = "format_outlets"
    /\ ret.kind = "ok"
    /\ Len(inp) = 3
    /\ \A k \in 1..3 : inp[k].name = <<>> /\ inp[k].location = inp[1].location
    /\ \E k \in 1..3 : ret.outlets[k].name = OutletName \o <<"2", "@", "1">>

(* C7: the location sort of formatted outlets returns a permutation of its
   input that is non-increasing in location and, among outlets of equal
   location, non-decreasing in name, whatever the input order was. *)
C7_SortByLocationThenName ==
    call.op = "sort_outlets" =>
        /\ Len(ret.outlets) = Len(call.arg)
        /\ \A o \in {call.arg[k] : k \in 1..Len(call.arg)} :
               \E k \in 1..Len(ret.outlets) : ret.outlets[k] = o
        /\ \A i, j \in 1..Len(ret.outlets) :
               i < j =>
                   /\ ret.outlets[i].location.v >= ret.outlets[j].location.v
                   /\ ret.outlets[i].location.v = ret.outlets[j].location.v =>
                          ~StrLt(ret.outlets[j].name, ret.outlets[i].name)

(* C8: formatting is idempotent: formatting the result of a successful
   format_outlets succeeds and returns the same names in the same order. *)
C8_FormatIdempotent ==
    call.op = "format_again" =>
        /\ ret.kind = "ok"
        /\ Names(ret.outlets) = Names(call.arg)

(* C9: with bands of strictly increasing tops, active_pool(volume) for a
   volume not above the last top returns the first band whose top is
   >= volume, with the volume for band 0 and the volume above the previous
   top otherwise; a volume equal to a top resolves to that band. *)
C9_ActivePoolFirstBand ==
    ( /\ call.op = "active_pool"
      /\ \A i \in 1..(Len(pools.names) - 1) :
             pools.top_locations[i] < pools.top_locations[i + 1]
      /\ call.volume <= pools.top_locations[Len(pools.names)] ) =>
        LET i == CHOOSE i \in 1..Len(pools.names) :
                     /\ call.volume <= pools.top_locations[i]
                     /\ \A j \in 1..(i - 1) : call.volume > pools.top_locations[j]
        IN  /\ ret.kind = "pool"
            /\ ret.name = pools.names[i]
            /\ ret.volume = IF i = 1 THEN call.volume
                            ELSE call.volume - pools.top_locations[i - 1]

(* C10: add_outlets returns a new reservoir object with the name, storage,
   capacity and operations of the reservoir it was called on and the
   formatted outlets, and leaves the reservoir it was called on as it was. *)
C10_AddOutletsCopiesReservoir ==
    (call.op = "add_outlets" /\ ret.kind = "object") =>
        /\ ret.ref # "self"
        /\ \A a \in {"name", "storage", "capacity", "operations"} :
               GetAttr(ret.ref, a) = GetAttr("self", a)
        /\ GetAttr(ret.ref, "outlets") = Attr(format_outlets(call.arg).outlets)
        /\ storage = call.storage
        /\ capacity = call.capacity
        /\ operations = call.operations

(* C11: format_outlets never changes its input: after every call, returning
   or raising, each outlet object of the caller's list has the name,
   location and design_range it had before, and no outlet of the returned
   tuple is one of the caller's objects. *)
C11_FormatLeavesInput ==
    call.op = "format_outlets" =>
        /\ inp = call.arg
        /\ ret.kind = "ok" =>
               \A k \in 1..Len(ret.ids) : ret.ids[k] \notin 1..Len(call.arg)

C11_Witness ==
    /\ call.op = "format_outlets"
    /\ ret.kind = "ok"
    /\ Len(inp) = 3
    /\ inp[1].name = <<>>
    /\ inp[2].name = <<>>
    /\ \A k \in 1..3 : ret.outlets[k].name \notin {inp[j].name : j \in 1..3}

(* C12: operate() on a reservoir with no policy bound fails in that very
   call and changes nothing: every step of such a reservoir ends in an
   error with storage, capacity, outlets and policy as they were, at the
   first call and at every later one. *)
C12_UnboundOperateFailsAtOnce ==
    [][operations = "None" =>
           /\ ret'.kind = "error"
           /\ call'.op = "None"
           /\ UNCHANGED <<storage, capacity, outlets, operations>>]_vars

C12_Witness ==
    /\ operations = "None"
    /\ call.op = "None"
    /\ call.inflow > 0
    /\ ret.kind = "error"
    /\ storage > 0

(* C13: there is no partial application: whenever an operate() call raises,
   the reservoir's storage, outlets and pools, the position of the pools'
   iterator included, are exactly as before the call, so that a following
   call behaves as if the failed call had not happened. *)
C13_NoPartialApplication ==
    (call.op = "pool_based_operations" /\ ret.kind = "error") =>
        /\ storage = call.storage
        /\ outlets = call.outlets
        /\ pools = call.pools
        /\ pools_i = call.pools_i

(* C14: the labels of a policy describe its output position by position:
   Passive returns one value, labelled ('Spill',); PassiveOutlets returns
   one release per outlet in the reservoir's stored order and then the
   spill, labelled with the outlets' names in that order and then 'Spill';
   there are as many labels as outputs. *)
C14_LabelsDescribeOutput ==
    call.op = "output_labels" =>
        /\ Len(ret.labels) = Len(call.output)
        /\ ret.labels[Len(ret.labels)] = SpillLabel
        /\ call.output[Len(call.output)] = Max(0, call.volume
                 - Sum(SubSeq(call.output, 1, Len(call.output) - 1)) - capacity)
        /\ operations = "Passive" => Len(ret.labels) = 1
        /\ operations = "PassiveOutlets" =>
               /\ Len(ret.labels) = Len(outlets) + 1
               /\ \A k \in 1..Len(outlets) :
                      /\ ret.labels[k] = outlets[k].name
                      /\ call.output[k] =
                             BasicOutlet_operations(outlets[k],
                                 call.volume - Sum(SubSeq(call.output, 1, k - 1))).max

C14_Witness ==
    /\ call.op = "output_labels"
    /\ operations = "PassiveOutlets"
    /\ Len(outlets) = 2
    /\ call.output[1] > 0
    /\ call.output[2] > 0
    /\ call.output[3] > 0

(* C15: when the volume is above the top of every band, active_pool returns
   a two-part result: the name '' that stands for no band, together with
   the volume above the last band's top. *)
C15_AboveAllTopsTwoPart ==
    ( /\ call.op = "active_pool"
      /\ \A k \in 1..Len(pools.names) : call.volume > pools.top_locations[k] ) =>
        /\ ret.kind = "pool"
        /\ ret.name = ""
        /\ ret.volume = call.volume - pools.top_locations[Len(pools.names)]

(* C16: constructing a reservoir with pools raises a configuration error if
   and only if the top of some band other than the last is greater than the
   reservoir's capacity; the last band's top may be above the capacity. *)
C16_ConstructionGuard ==
    call.op = "ReservoirWithPools" =>
        ( ret.kind = "error" <=>
              \E k \in 1..(Len(pools.names) - 1) :
                  pools.top_locations[k] > call.capacity )

(* C17: for an outlet whose design_range has 0 <= min <= max, and any
   fill_state, the release range returned has 0 <= min <= max, and its max
   is no more than the volume above the outlet's location,
   max(0, fill_state - location). *)
C17_ReleaseRangeWithinAvailable ==
    call.op = "operations" =>
        LET o == call.outlets[call.k]
        IN  (0 <= o.design_range.min /\ o.design_range.min <= o.design_range.max) =>
                /\ 0 <= ret.range.min
                /\ ret.range.min <= ret.range.max
                /\ ret.range.max <= Max(0, call.fill_state - o.location.v)

C17_Witness ==
    /\ call.op = "operations"
    /\ call.outlets[call.k].design_range.min > 0
    /\ ret.range.max > 0
    /\ ret.range.max = call.fill_state - call.outlets[call.k].location.v
    /\ ret.range.max < call.outlets[call.k].design_range.max

(* C18: PassiveOutlets.operate starts from volume = storage + inflow, takes
   the outlets in the reservoir's stored order, releases from each the max
   of its release range at the volume left by the outlets before it, then
   reports spill = max(0, volume - capacity) and stores the remaining
   volume, the spill not subtracted. *)
C18_PassiveOutletsSequence ==
    call.op = "PassiveOutlets" =>
        LET n == Len(outlets)
            left(k) == call.storage + call.inflow - Sum(SubSeq(ret.output, 1, k))
        IN  /\ Len(ret.output) = n + 1
            /\ \A k \in 1..n :
                   ret.output[k] = BasicOutlet_operations(outlets[k], left(k - 1)).max
            /\ ret.output[n + 1] = Max(0, left(n) - capacity)
            /\ storage = left(n)

C18_Witness ==
    /\ call.op = "PassiveOutlets"
    /\ Len(outlets) = 2
    /\ ret.output[1] > 0
    /\ ret.output[2] > ret.output[1]
    /\ ret.output[3] > 0
    /\ storage > capacity

(* C19: the two-pass rename of format_outlets, for every call that returns.
   An outlet whose name (with '' read as 'outlet') occurs once keeps it.
   The others get '@<location>' appended, the location written as an
   integer when it is an int and as round(location, 1) when it is a float
   (so 1.0 is written '1.0'); outlets of one name that still share a name
   then get 1, 2, ... inserted before the first '@', in input order. *)
C19_TwoPassRename ==
    (call.op = "format_outlets" /\ ret.kind = "ok") =>
        LET outs == call.arg
            n == Len(outs)
            text(k) == IF outs[k].location.ty = "int"
                       THEN Digits(outs[k].location.v \div 4)
                       ELSE Round1Str(outs[k].location.v)
            norm(k) == IF outs[k].name = <<>> THEN OutletName ELSE outs[k].name
            shared(k) == \E j \in 1..n : j # k /\ norm(j) = norm(k)
            first(k) == IF shared(k) THEN norm(k) \o <<"@">> \o text(k) ELSE norm(k)
            group(k) == {j \in 1..n : norm(j) = norm(k) /\ first(j) = first(k)}
            rank(k) == Cardinality({j \in group(k) : j <= k})
            final(k) ==
                IF shared(k) /\ Cardinality(group(k)) > 1
                THEN LET at == IndexAt(first(k))
                     IN  SubSeq(first(k), 1, at - 1) \o Digits(rank(k))
                             \o SubSeq(first(k), at, Len(first(k)))
                ELSE first(k)
        IN  \A k \in 1..n : ret.outlets[k].name = final(ret.ids[k] - n)

C19_Witness ==
    /\ call.op = "format_outlets"
    /\ ret.kind = "ok"
    /\ Len(inp) = 3
    /\ inp[1] = [name |-> <<>>, location |-> PyFloat(4),
                 design_range |-> ReleaseRange(0, Inf)]
    /\ inp[2] = [inp[1] EXCEPT !.location = PyInt(1)]
    /\ inp[3] = inp[1]
    /\ \E k \in 1..3 :
           /\ ret.ids[k] = 6
           /\ ret.outlets[k].name = OutletName \o <<"2", "@", "1", ".", "0">>
    /\ \E k \in 1..3 :
           /\ ret.ids[k] = 5
           /\ ret.outlets[k].name = OutletName \o <<"@", "1">>

(* C19 as the specification words it: the location after the '@' is written
   as an integer whenever it is exactly integral, whatever its type, and
   rounded to one decimal otherwise. *)
C19_IntegralWrittenAsInteger ==
    (call.op = "format_outlets" /\ ret.kind = "ok") =>
        LET outs == call.arg
            n == Len(outs)
            text(k) == IF outs[k].location.v % 4 = 0
                       THEN Digits(outs[k].location.v \div 4)
                       ELSE Round1Str(outs[k].location.v)
            norm(k) == IF outs[k].name = <<>> THEN OutletName ELSE outs[k].name
            shared(k) == \E j \in 1..n : j # k /\ norm(j) = norm(k)
            first(k) == IF shared(k) THEN norm(k) \o <<"@">> \o text(k) ELSE norm(k)
            group(k) == {j \in 1..n : norm(j) = norm(k) /\ first(j) = first(k)}
            rank(k) == Cardinality({j \in group(k) : j <= k})
            final(k) ==
                IF shared(k) /\ Cardinality(group(k)) > 1
                THEN LET at == IndexAt(first(k))
                     IN  SubSeq(first(k), 1, at - 1) \o Digits(rank(k))
                             \o SubSeq(first(k), at, Len(first(k)))
                ELSE first(k)
        IN  \A k \in 1..n : ret.outlets[k].name = final(ret.ids[k] - n)

(* C20: the error 'Failed to create unique names' cannot be reached from
   the caller's input: for every list of outlets whose names all pass the
   validation of preprocss, format_outlets returns a result. *)
C20_UniqueNamesErrorUnreachable ==
    ( /\ call.op = "format_outlets"
      /\ \A k \in 1..Len(call.arg) : ~NameInvalid(call.arg[k]) ) =>
        /\ ret # Raise("Failed to create unique names")
        /\ ret.kind = "ok"

(* C21: the name validation of format_outlets: an empty name becomes
   'outlet'; a name with exactly one '@' is accepted only when the text
   after the '@' is the string form of the outlet's location, and the call
   fails otherwise; a name with more than one '@' always fails; a name
   without '@' is accepted as it is. *)
C21_NameValidation ==
    call.op = "format_outlets" =>
        LET outs == call.arg
            n == Len(outs)
            ats(k) == Cardinality({i \in 1..Len(outs[k].name) : outs[k].name[i] = "@"})
            after(k) == SubSeq(outs[k].name, IndexAt(outs[k].name) + 1,
                               Len(outs[k].name))
            rejected(k) == \/ ats(k) > 1
                           \/ ats(k) = 1 /\ after(k) # str(outs[k].location)
            norm(k) == IF outs[k].name = <<>> THEN OutletName ELSE outs[k].name
            returned(k) == ret.outlets[CHOOSE j \in 1..n : ret.ids[j] = n + k].name
        IN  /\ ret = Raise("Invalid name") <=> \E k \in 1..n : rejected(k)
            /\ ret.kind = "ok" =>
                   \A k \in 1..n :
                       (\A j \in 1..n : norm(j) = norm(k) => j = k) =>
                           returned(k) = norm(k)

C21_Witness ==
    /\ call.op = "format_outlets"
    /\ ret.kind = "ok"
    /\ Len(inp) = 2
    /\ inp[1].name = <<>>
    /\ inp[2].name = <<"a", "@", "1", ".", "0">>
    /\ inp[2].location = PyFloat(4)
    /\ \E k \in 1..2 : ret.outlets[k].name = OutletName
    /\ \E k \in 1..2 : ret.outlets[k].name = inp[2].name

(* C22: the zoned policy dispatches on the active band for
   volume = storage + inflow: 'dead' gives zero in every position,
   'conservation' gives min(demand, band volume) in the conservation
   position and zero elsewhere, 'flood' gives min(band volume,
   max_flood_release) in the flood position and zero elsewhere, and a band
   name outside the dispatch table ends the call with an error. *)
C22_ZonedDispatch ==
    ( /\ call.op = "pool_based_operations"
      /\ \E k \in 1..Len(pools.names) :
             call.storage + call.inflow <= pools.top_locations[k] ) =>
        LET volume == call.storage + call.inflow
            count == Len(pools.names)
            b == CHOOSE k \in 1..count :
                     /\ volume <= pools.top_locations[k]
                     /\ \A j \in 1..(k - 1) : volume > pools.top_locations[j]
            band_volume == IF b = 1 THEN volume
                           ELSE volume - pools.top_locations[b - 1]
            only(k, x) == [j \in 1..count |-> IF j = k THEN x ELSE 0]
        IN  /\ pools.names[b] = "dead" =>
                   ret.kind = "releases" /\ ret.output = only(0, 0)
            /\ pools.names[b] = "conservation" =>
                   /\ ret.kind = "releases"
                   /\ ret.output = only(2, Min(call.demand, band_volume))
            /\ pools.names[b] = "flood" =>
                   /\ ret.kind = "releases"
                   /\ ret.output = only(3, Min(band_volume, max_flood_release))
            /\ pools.names[b] \notin {"dead", "conservation", "flood",
                                       "surcharge", "spill"} =>
                   ret.kind = "error"

(* C23: a successful operate() call writes the reservoir's storage through
   the bound policy: after a zoned-policy call that returns,
   storage = storage before + inflow - the sum of the releases returned. *)
C23_ZonedPolicyWritesStorage ==
    (call.op = "pool_based_operations" /\ ret.kind = "releases") =>
        storage = call.storage + call.inflow - Sum(ret.output)

(* C24: what active_pool(v) returns depends only on v and the configured
   pools, which lookups and policy calls do not change: a call
   active_pool(v) that follows a call active_pool(v) with the same v on the
   same reservoir returns the same band and the same in-band volume, and
   the pools with their iterator are as they were. *)
C24_ActivePoolRepeatable ==
    [][( /\ call.op = "active_pool"
         /\ call'.op = "active_pool"
         /\ call'.volume = call.volume ) =>
           /\ ret' = ret
           /\ pools' = pools]_vars

(* C25: Pools whose top_locations are not strictly increasing are rejected
   when they are constructed, so the pools of every reservoir that is
   looked up or operated have strictly increasing tops. *)
C25_PoolsTopsIncreasing ==
    call.op \in {"active_pool", "pool_based_operations"} =>
        \A k \in 1..(Len(pools.top_locations) - 1) :
            pools.top_locations[k] < pools.top_locations[k + 1]

(* C26: an outlet whose design_range has min > max or min < 0 is rejected
   when it is constructed, so every outlet that is asked for its release
   range has 0 <= design_range.min <= design_range.max. *)
C26_DesignRangeValid ==
    call.op = "operations" =>
        LET o == call.outlets[call.k]
        IN  /\ 0 <= o.design_range.min
            /\ o.design_range.min <= o.design_range.max

(* C27: a load_plugins call that brings, under a name already registered
   for that tag, an implementation other than the registered one raises
   ValueError and leaves the tag's registry as it was before the call: two
   different implementations are never overwritten silently. *)
C27_NoSilentOverwrite ==
    call.op = "load_plugins" =>
        \A j \in 1..Len(call.found_plugins) :
            LET k == call.found_plugins[j].k
                v == call.found_plugins[j].v
            IN  (In(k, call.registry) /\ GetItem(call.registry, k) # v)
                    => /\ ret = Raise("ValueError")
                       /\ PLUGINS[call.tag] = call.registry

(* C28: in any sequence of zoned-policy operate calls on one reservoir with
   pools, a call whose volume = storage + inflow falls inside some band
   never fails with an IndexError, and the release vector it returns has
   exactly one entry per pool, len(pools.names). *)
C28_OneReleasePerPool ==
    ( /\ call.op = "pool_based_operations"
      /\ \E k \in 1..Len(pools.names) :
             call.storage + call.inflow <= pools.top_locations[k] ) =>
        /\ ret # Raise("IndexError")
        /\ ret.kind = "releases" => Len(ret.output) = Len(pools.names)

(* C29: under PassiveOutlets, with storage + inflow >= 0, outlets at
   locations >= 0 and design ranges with 0 <= min <= max, in any outlet
   order: every per-outlet release is >= 0, the per-outlet releases together
   never exceed storage + inflow, and the storage left by every operate
   call of a sequence is >= 0. *)
C29_PassiveOutletsNonNegative ==
    ( /\ call.op = "PassiveOutlets"
      /\ call.storage + call.inflow >= 0
      /\ \A k \in 1..Len(outlets) :
             /\ outlets[k].location.v >= 0
             /\ 0 <= outlets[k].design_range.min
             /\ outlets[k].design_range.min <= outlets[k].design_range.max ) =>
        LET n == Len(outlets)
        IN  /\ \A k \in 1..n : ret.output[k] >= 0
            /\ Sum(SubSeq(ret.output, 1, n)) <= call.storage + call.inflow
            /\ storage >= 0

C29_Witness ==
    /\ call.op = "PassiveOutlets"
    /\ Len(outlets) = 2
    /\ outlets[1].location.v > outlets[2].location.v
    /\ ret.output[1] > 0
    /\ ret.output[2] > 0
    /\ ret.output[1] + ret.output[2] = call.storage + call.inflow
    /\ storage = 0

(* C30: for an Asset constructed with salvage_value <= value <=
   replacement_value and salvage_value < replacement_value on a linear
   schedule (k = 1), every depreciate(maintenance) call of a sequence
   returns an asset, whatever the maintenance, and the asset returned has
   salvage_value <= value <= replacement_value. *)
C30_DepreciateStaysInRange ==
    call.op = "depreciate" =>
        /\ ret.kind = "asset"
        /\ RLe(asset.salvage_value, asset.value)
        /\ RLe(asset.value, asset.replacement_value)

====
